---- MODULE Spec2Model ----
(***************************************************************************)
(* ContactSensor (omni.isaac.orbit.sensors.contact_sensor): the per-env,   *)
(* per-body contact buffers, their lazy update on read, and reset.         *)
(*                                                                         *)
(* Tensors are functions: a buffer of shape (N, B, ...) is                 *)
(* [Envs -> [Bodies -> value]]; the history buffer of shape (N, H+1, B, 3) *)
(* is [Envs -> Seq([Bodies -> Vec3])] with slot k of the code at index k+1.*)
(* Time is counted in integer ticks of the simulation clock.               *)
(*                                                                         *)
(* The modelled sensor has num_envs = 2 envs with num_bodies = 1 body      *)
(* each; the history length and the filter configuration are chosen at     *)
(* initialization. SensorBase (the timestamps, the outdated flag, the      *)
(* staleness check and the base reset) is modelled from the specification. *)
(***************************************************************************)
EXTENDS Integers, Sequences, FiniteSets

VARIABLES
    pos_w,                  \* _data.pos_w                (N, B, 3)
    quat_w,                 \* _data.quat_w               (N, B, 4)
    last_air_time,          \* _data.last_air_time        (N, B)
    current_air_time,       \* _data.current_air_time     (N, B)
    net_forces_w,           \* _data.net_forces_w         (N, B, 3)
    net_forces_w_history,   \* _data.net_forces_w_history (N, H+1, B, 3)
    force_matrix_w,         \* _data.force_matrix_w       (N, B, S, F, 3), if filters are configured
    timestamp,              \* SensorBase._timestamp             (N,)
    timestamp_last_update,  \* SensorBase._timestamp_last_update (N,)
    is_outdated,            \* SensorBase._is_outdated           (N,)
    history_length,         \* cfg.history_length
    has_filter,             \* len(cfg.filter_prim_paths_expr) != 0
    fed,                    \* history: per env, the net forces fed since its last reset, newest first
    last                    \* history: the operation that produced this state

data == <<pos_w, quat_w, last_air_time, current_air_time, net_forces_w,
          net_forces_w_history, force_matrix_w>>
base == <<timestamp, timestamp_last_update, is_outdated>>
cfg  == <<history_length, has_filter>>
vars == <<data, base, cfg, fed, last>>

----------------------------------------------------------------------------
(* Configuration and bounds *)

\* self._num_envs and self._num_bodies of the modelled sensor.
num_envs == 2
num_bodies == 1
\* cfg.history_length ranges over 0 .. MaxHistory.
MaxHistory == 1
\* The simulation clock stops at MaxTime ticks.
MaxTime == 3
\* The simulation steps of the model last one tick.
Dts == {1}

Envs == 0 .. (num_envs - 1)
Bodies == 0 .. (num_bodies - 1)

Zero3 == <<0, 0, 0>>
\* Net forces the backend reports: one of norm exactly 1.0 (no contact) and one of
\* norm above 1.0 (contact).
NoContactForce == <<0, 1, 0>>
ContactForce == <<1, 1, 0>>
ForceVals == {NoContactForce, ContactForce}
\* A raw pose is the 7-vector (position, quaternion), kept as the pair of its two slices.
PoseVals == {<<1, 1>>}
MatrixVals == {1}

\* Python index values: None, Ellipsis, or a list / index tensor of env ids.
None == [kind |-> "None", ids |-> {}]
Ellipsis == [kind |-> "Ellipsis", ids |-> {}]
Ids(S) == [kind |-> "ids", ids |-> S]

\* The rows of the first dimension that buf[idx] addresses.
Rows(idx) == IF idx.kind = "Ellipsis" THEN Envs ELSE idx.ids

\* buf[idx] = val, with val given per row.
AssignRows(buf, idx, val) == [i \in Envs |-> IF i \in Rows(idx) THEN val[i] ELSE buf[i]]

\* buf[idx] = c, a scalar broadcast over the bodies (and further dimensions).
FillRows(buf, idx, c) == [i \in Envs |-> IF i \in Rows(idx) THEN [b \in Bodies |-> c] ELSE buf[i]]

----------------------------------------------------------------------------
(* SensorBase: timestamps and the outdated flag *)

\* The sensor's data must be refreshed before it is read.
NeedsUpdate(i) == timestamp[i] > timestamp_last_update[i] \/ is_outdated[i]

OutdatedEnvIds == {i \in Envs : NeedsUpdate(i)}

\* SensorBase.reset: "reset the timers and counters" of the given envs (all for None)
\* and mark them outdated.
SensorBaseReset(env_ids) ==
    LET rows == IF env_ids.kind = "None" THEN Envs ELSE env_ids.ids
    IN  [timestamp |-> [i \in Envs |-> IF i \in rows THEN 0 ELSE timestamp[i]],
         timestamp_last_update |->
             [i \in Envs |-> IF i \in rows THEN 0 ELSE timestamp_last_update[i]],
         is_outdated |-> [i \in Envs |-> IF i \in rows THEN TRUE ELSE is_outdated[i]]]

----------------------------------------------------------------------------
(* ContactSensor.reset *)

\* ResolveNone without the None case: None is used as an index that selects no env.
ResolveNoneSkipped(env_ids) == env_ids

\* "resolve None"
ResolveNone(env_ids) == IF env_ids.kind = "None" THEN Ellipsis ELSE env_ids

\* ResetHistory without the env_ids index: the history of every env is zeroed.
ResetHistoryAllEnvs(hist, idx) ==
    [i \in Envs |-> [k \in 1 .. Len(hist[i]) |-> [b \in Bodies |-> Zero3]]]

\* _data.net_forces_w_history[env_ids] = 0.0
ResetHistory(hist, idx) ==
    [i \in Envs |-> IF i \in Rows(idx)
                    THEN [k \in 1 .. Len(hist[i]) |-> [b \in Bodies |-> Zero3]]
                    ELSE hist[i]]

\* ClearOutdated left out: the flags stay as the base reset set them.
ClearOutdatedSkipped(flags, idx) == flags

\* _is_outdated[env_ids] = False
ClearOutdated(flags, idx) == [i \in Envs |-> IF i \in Rows(idx) THEN FALSE ELSE flags[i]]

\* The data buffers after reset(env_ids), as a record.
ResetData(env_ids) ==
    LET idx == ResolveNone(env_ids)
    IN  [current_air_time |-> FillRows(current_air_time, idx, 0),
         last_air_time |-> FillRows(last_air_time, idx, 0),
         net_forces_w |-> FillRows(net_forces_w, idx, Zero3),
         net_forces_w_history |-> ResetHistory(net_forces_w_history, idx)]

\* The timers and flags after reset(env_ids), as a record.
ResetBase(env_ids) ==
    LET sb == SensorBaseReset(env_ids)
    IN  [sb EXCEPT !.is_outdated = ClearOutdated(sb.is_outdated, ResolveNone(env_ids))]

\* Reset that also zeroes the pose and the force matrix of the reset envs.
ResetWithPose(env_ids) ==
    LET d == ResetData(env_ids)
        t == ResetBase(env_ids)
        idx == ResolveNone(env_ids)
    IN  /\ current_air_time' = d.current_air_time
        /\ last_air_time' = d.last_air_time
        /\ net_forces_w' = d.net_forces_w
        /\ net_forces_w_history' = d.net_forces_w_history
        /\ pos_w' = FillRows(pos_w, idx, 0)
        /\ quat_w' = FillRows(quat_w, idx, 0)
        /\ force_matrix_w' = FillRows(force_matrix_w, idx, 0)
        /\ timestamp' = t.timestamp
        /\ timestamp_last_update' = t.timestamp_last_update
        /\ is_outdated' = t.is_outdated
        /\ fed' = [i \in Envs |-> IF i \in Rows(idx) THEN <<>> ELSE fed[i]]
        /\ last' = [op |-> "reset", arg |-> env_ids, raised |-> FALSE,
                    is_contact |-> [i \in Envs |-> [b \in Bodies |-> FALSE]],
                    first |-> [i \in Envs |-> [b \in Bodies |-> FALSE]],
                    had_last |-> [i \in Envs |-> [b \in Bodies |-> last_air_time[i][b] > 0]]]
        /\ UNCHANGED cfg

Reset(env_ids) ==
    LET d == ResetData(env_ids)
        t == ResetBase(env_ids)
    IN  /\ current_air_time' = d.current_air_time
        /\ last_air_time' = d.last_air_time
        /\ net_forces_w' = d.net_forces_w
        /\ net_forces_w_history' = d.net_forces_w_history
        /\ timestamp' = t.timestamp
        /\ timestamp_last_update' = t.timestamp_last_update
        /\ is_outdated' = t.is_outdated
        /\ fed' = [i \in Envs |-> IF i \in Rows(ResolveNone(env_ids)) THEN <<>> ELSE fed[i]]
        /\ last' = [op |-> "reset", arg |-> env_ids, raised |-> FALSE,
                    is_contact |-> [i \in Envs |-> [b \in Bodies |-> FALSE]],
                    first |-> [i \in Envs |-> [b \in Bodies |-> FALSE]],
                    had_last |-> [i \in Envs |-> [b \in Bodies |-> last_air_time[i][b] > 0]]]
        /\ UNCHANGED <<pos_w, quat_w, force_matrix_w, cfg>>

----------------------------------------------------------------------------
(* ContactSensor._update_buffers_impl *)

\* ResolveAll that always takes every env, whatever env_ids holds.
ResolveAllAlways(ids) == Ellipsis

\* "default to all sensors": len(env_ids) == self._num_envs
ResolveAll(ids) == IF Cardinality(ids) = num_envs THEN Ellipsis ELSE Ids(ids)

\* Square of torch.norm(v, dim=-1) of a 3-vector.
Norm2(v) == v[1] * v[1] + v[2] * v[2] + v[3] * v[3]

\* ShiftHistory without the clone: slots 1.. are read from the buffer after slot 0
\* was written.
ShiftHistoryInPlace(hist, net, idx, H) ==
    LET slot0 == [i \in Envs |-> IF i \in Rows(idx)
                                 THEN [hist[i] EXCEPT ![1] = net[i]]
                                 ELSE hist[i]]
    IN  IF H > 0
        THEN [i \in Envs |->
                 IF i \in Rows(idx)
                 THEN [k \in 1 .. Len(slot0[i]) |->
                          IF k >= 2 THEN slot0[i][k - 1] ELSE slot0[i][k]]
                 ELSE slot0[i]]
        ELSE slot0

\* ShiftHistory that prepends the net forces to the whole previous history, without
\* dropping the oldest slot.
ShiftHistoryGrow(hist, net, idx, H) ==
    [i \in Envs |-> IF i \in Rows(idx) THEN <<net[i]>> \o hist[i] ELSE hist[i]]

\* ShiftHistory run before the net forces are refreshed: slot 0 takes the net
\* forces of the previous step.
ShiftHistoryBeforeNet(hist, net, idx, H) ==
    LET previous == hist
        slot0 == [i \in Envs |-> IF i \in Rows(idx)
                                 THEN [previous[i] EXCEPT ![1] = net_forces_w[i]]
                                 ELSE previous[i]]
    IN  IF H > 0
        THEN [i \in Envs |->
                 IF i \in Rows(idx)
                 THEN [k \in 1 .. Len(slot0[i]) |->
                          IF k >= 2 THEN previous[i][k - 1] ELSE slot0[i][k]]
                 ELSE slot0[i]]
        ELSE slot0

\* "update contact force history": the previous history is cloned, slot 0 takes the
\* net forces, and slots 1.. take the clone's slots 0..H-1.
ShiftHistory(hist, net, idx, H) ==
    LET previous == hist
        slot0 == [i \in Envs |-> IF i \in Rows(idx)
                                 THEN [previous[i] EXCEPT ![1] = net[i]]
                                 ELSE previous[i]]
    IN  IF H > 0
        THEN [i \in Envs |->
                 IF i \in Rows(idx)
                 THEN [k \in 1 .. Len(slot0[i]) |->
                          IF k >= 2 THEN previous[i][k - 1] ELSE slot0[i][k]]
                 ELSE slot0[i]]
        ELSE slot0

\* net_forces_w[env_ids, 0, :, :] puts four indices on the 3-dimensional (N, B, 3)
\* tensor: with an index tensor in front that is an IndexError.
ContactIndexError(idx) == idx.kind # "Ellipsis"

\* With env_ids = Ellipsis the same expression is net_forces_w[0, :, :], of shape
\* (B, 3): the flags have shape (B,) and broadcast over the envs.
IsContact(net, idx) == [i \in Envs |-> [b \in Bodies |-> Norm2(net[0][b]) > 1]]

\* ElapsedTime with the two timestamps swapped.
ElapsedTimeReversed(i) == timestamp_last_update[i] - timestamp[i]

\* elapsed_time = _timestamp[env_ids] - _timestamp_last_update[env_ids]
ElapsedTime(i) == timestamp[i] - timestamp_last_update[i]

\* is_first_contact = (current_air_time[env_ids] > 0) * is_contact
IsFirstContact(cat, is_contact) ==
    [i \in Envs |-> [b \in Bodies |-> cat[i][b] > 0 /\ is_contact[i][b]]]

\* current_air_time[env_ids] += elapsed_time.unsqueeze(-1)
AddElapsed(cat, idx) ==
    [i \in Envs |-> IF i \in Rows(idx)
                    THEN [b \in Bodies |-> cat[i][b] + ElapsedTime(i)]
                    ELSE cat[i]]

\* LastAirTime that writes only at onset and keeps the old value otherwise.
LastAirTimeSticky(lat, cat1, first, idx) ==
    [i \in Envs |-> IF i \in Rows(idx)
                    THEN [b \in Bodies |-> IF first[i][b] THEN cat1[i][b] ELSE lat[i][b]]
                    ELSE lat[i]]

\* last_air_time[env_ids] = current_air_time[env_ids] * is_first_contact
LastAirTime(lat, cat1, first, idx) ==
    [i \in Envs |-> IF i \in Rows(idx)
                    THEN [b \in Bodies |-> IF first[i][b] THEN cat1[i][b] ELSE 0]
                    ELSE lat[i]]

\* CurrentAirTime that is not zeroed for bodies in contact.
CurrentAirTimeKept(cat1, is_contact, idx) == cat1

\* current_air_time[env_ids] *= ~is_contact
CurrentAirTime(cat1, is_contact, idx) ==
    [i \in Envs |-> IF i \in Rows(idx)
                    THEN [b \in Bodies |-> IF is_contact[i][b] THEN 0 ELSE cat1[i][b]]
                    ELSE cat1[i]]

NoContact == [i \in Envs |-> [b \in Bodies |-> FALSE]]

\* Recorded with an operation: the bodies whose last_air_time is nonzero before it.
HadLast == [i \in Envs |-> [b \in Bodies |-> last_air_time[i][b] > 0]]

\* The contact flags the air-time update uses (none when the indexing raised).
ContactFlags(net, idx) == IF ContactIndexError(idx) THEN NoContact ELSE IsContact(net, idx)

\* _update_buffers_impl(ids) on the pose, net forces and force matrix the backend
\* returns. The statements run in order: when the contact-state indexing raises,
\* the buffers written before it keep their new values and the air times are not
\* touched.
UpdateBuffersImpl(ids, pose, forces, matrix) ==
    LET idx == ResolveAll(ids)
        net == AssignRows(net_forces_w, idx, forces)
        is_contact == IsContact(net, idx)
        cat1 == AddElapsed(current_air_time, idx)
    IN  /\ pos_w' = AssignRows(pos_w, idx, [i \in Envs |-> [b \in Bodies |-> pose[i][b][1]]])
        /\ quat_w' = AssignRows(quat_w, idx, [i \in Envs |-> [b \in Bodies |-> pose[i][b][2]]])
        /\ net_forces_w' = net
        /\ force_matrix_w' = IF has_filter THEN AssignRows(force_matrix_w, idx, matrix)
                             ELSE force_matrix_w
        /\ net_forces_w_history' =
               ShiftHistory(net_forces_w_history, net, idx, history_length)
        /\ IF ContactIndexError(idx)
           THEN UNCHANGED <<last_air_time, current_air_time>>
           ELSE /\ last_air_time' =
                       LastAirTime(last_air_time, cat1,
                                   IsFirstContact(current_air_time, is_contact), idx)
                /\ current_air_time' = CurrentAirTime(cat1, is_contact, idx)

----------------------------------------------------------------------------
(* ContactSensor.data *)

\* The newest H+1 net forces fed to env i, newest first.
Feed(i, f) == SubSeq(<<f>> \o fed[i], 1,
                     IF Len(fed[i]) + 1 > history_length + 1 THEN history_length + 1
                     ELSE Len(fed[i]) + 1)

\* SensorBase._update_outdated_buffers after the update returned: the updated envs
\* are up to date.
MarkUpdated(ids) ==
    /\ timestamp_last_update' =
           [i \in Envs |-> IF i \in ids THEN timestamp[i] ELSE timestamp_last_update[i]]
    /\ is_outdated' = [i \in Envs |-> IF i \in ids THEN FALSE ELSE is_outdated[i]]

\* The data property: _update_outdated_buffers(), then the buffers are returned.
\* The outdated envs are updated from what the backend returns now. An error
\* raised by the update propagates: the envs are not marked up to date.
ReadData(pose, forces, matrix) ==
    LET ids == OutdatedEnvIds
        idx == ResolveAll(ids)
    IN  IF ids = {}
        THEN /\ UNCHANGED <<data, base, cfg, fed>>
             /\ last' = [op |-> "data", arg |-> Ids({}), raised |-> FALSE,
                         is_contact |-> NoContact, first |-> NoContact,
                         had_last |-> HadLast]
        ELSE /\ UpdateBuffersImpl(ids, pose, forces, matrix)
             /\ IF ContactIndexError(idx)
                THEN UNCHANGED <<timestamp_last_update, is_outdated>>
                ELSE MarkUpdated(ids)
             /\ fed' = [i \in Envs |-> IF i \in ids THEN Feed(i, forces[i]) ELSE fed[i]]
             /\ last' = [op |-> "data", arg |-> Ids(ids), raised |-> ContactIndexError(idx),
                         is_contact |-> ContactFlags(AssignRows(net_forces_w, idx, forces), idx),
                         first |-> IsFirstContact(current_air_time,
                                       ContactFlags(AssignRows(net_forces_w, idx, forces), idx)),
                         had_last |-> HadLast]
             /\ UNCHANGED <<timestamp, cfg>>

----------------------------------------------------------------------------
(* The simulation *)

\* One simulation step of dt ticks: the clock of every env advances.
SimStep(dt) ==
    /\ \A i \in Envs : timestamp[i] + dt <= MaxTime
    /\ timestamp' = [i \in Envs |-> timestamp[i] + dt]
    /\ last' = [op |-> "step", arg |-> Ids({}), raised |-> FALSE,
                is_contact |-> NoContact, first |-> NoContact, had_last |-> HadLast]
    /\ UNCHANGED <<data, timestamp_last_update, is_outdated, cfg, fed>>

----------------------------------------------------------------------------
(* _initialize_impl: the buffers are allocated as zeros *)

Init ==
    /\ history_length \in 0 .. MaxHistory
    /\ has_filter \in BOOLEAN
    /\ pos_w = [i \in Envs |-> [b \in Bodies |-> 0]]
    /\ quat_w = [i \in Envs |-> [b \in Bodies |-> 0]]
    /\ last_air_time = [i \in Envs |-> [b \in Bodies |-> 0]]
    /\ current_air_time = [i \in Envs |-> [b \in Bodies |-> 0]]
    /\ net_forces_w = [i \in Envs |-> [b \in Bodies |-> Zero3]]
    /\ net_forces_w_history =
           [i \in Envs |-> [k \in 1 .. (history_length + 1) |-> [b \in Bodies |-> Zero3]]]
    /\ force_matrix_w = [i \in Envs |-> [b \in Bodies |-> 0]]
    /\ timestamp = [i \in Envs |-> 0]
    /\ timestamp_last_update = [i \in Envs |-> 0]
    \* the flags start all set (a first read refreshes) or all clear
    /\ \E o \in BOOLEAN : is_outdated = [i \in Envs |-> o]
    /\ fed = [i \in Envs |-> <<>>]
    /\ last = [op |-> "init", arg |-> Ids({}), raised |-> FALSE,
               is_contact |-> NoContact, first |-> NoContact, had_last |-> NoContact]

\* The net forces the backend returns to a read. The rows of the envs the read does
\* not update are never used; they are listed with one fixed value.
BackendForces ==
    {f \in [Envs -> [Bodies -> ForceVals]] :
        \A i \in Envs \ OutdatedEnvIds : f[i] = [b \in Bodies |-> NoContactForce]}

ResetArgs == {None} \cup {Ids(S) : S \in SUBSET Envs}

Next ==
    \/ \E dt \in Dts : SimStep(dt)
    \/ \E env_ids \in ResetArgs : Reset(env_ids)
    \/ \E pose \in [Envs -> [Bodies -> PoseVals]],
          forces \in BackendForces,
          matrix \in [Envs -> [Bodies -> MatrixVals]] : ReadData(pose, forces, matrix)

Spec == Init /\ [][Next]_vars

----------------------------------------------------------------------------
(* Properties *)

\* The envs a reset argument names: all of them for None.
Subset(arg) == IF arg.kind = "None" THEN Envs ELSE arg.ids

ZeroHistory(h) == \A k \in 1 .. Len(h) : \A b \in Bodies : h[k][b] = Zero3

\* The transition is a step of _update_buffers_impl over env i.
Stepped(i) == last'.op = "data" /\ i \in last'.arg.ids

\* C1: history shift. With history length H >= 1, after every step the history of
\* an env holds the net forces fed to it since its last reset, newest first:
\* slot j is the input of j steps ago, for every j up to min(k, H).
C1_HistoryShift ==
    history_length >= 1 =>
        \A i \in Envs : \A j \in 1 .. Len(fed[i]) :
            net_forces_w_history[i][j] = fed[i][j]

\* C1 witness: an env was just stepped for at least the second time since its
\* reset, with a net force different from the one before.
C1_Witness ==
    /\ history_length >= 1
    /\ last.op = "data"
    /\ \E i \in last.arg.ids : Len(fed[i]) >= 2 /\ fed[i][1] # fed[i][2]

\* C2: reset isolation. reset(S) leaves current_air_time, last_air_time, the net
\* forces and every history slot zero for the envs in S and unchanged for the
\* envs not in S.
C2_ResetIsolation ==
    [][last'.op = "reset" =>
          \A i \in Envs :
              IF i \in Subset(last'.arg)
              THEN /\ \A b \in Bodies : /\ current_air_time'[i][b] = 0
                                        /\ last_air_time'[i][b] = 0
                                        /\ net_forces_w'[i][b] = Zero3
                   /\ ZeroHistory(net_forces_w_history'[i])
              ELSE /\ current_air_time'[i] = current_air_time[i]
                   /\ last_air_time'[i] = last_air_time[i]
                   /\ net_forces_w'[i] = net_forces_w[i]
                   /\ net_forces_w_history'[i] = net_forces_w_history[i]]_vars

\* C2 witness: env 0 alone was just reset while env 1 holds a nonzero net force
\* in its buffers.
C2_Witness ==
    /\ last.op = "reset"
    /\ last.arg = Ids({0})
    /\ net_forces_w[0][0] = Zero3
    /\ net_forces_w[1][0] # Zero3
    /\ net_forces_w_history[1][1][0] # Zero3

\* C3: staleness idempotence. A read that directly follows a read (no simulation
\* step and no reset in between) leaves every buffer as it was and updates no env.
C3_StalenessIdempotence ==
    [][(last.op = "data" /\ last'.op = "data") =>
          (data' = data /\ last'.arg.ids = {})]_vars

\* C4: reset-then-read. The read that directly follows reset(S) returns, with
\* zero net forces, history and air times for the envs of S, and updates none of them.
C4_ResetThenRead ==
    [][(last.op = "reset" /\ last'.op = "data") =>
          /\ ~last'.raised
          /\ \A i \in Subset(last.arg) :
                 /\ i \notin last'.arg.ids
                 /\ \A b \in Bodies : /\ current_air_time'[i][b] = 0
                                      /\ last_air_time'[i][b] = 0
                                      /\ net_forces_w'[i][b] = Zero3
                 /\ ZeroHistory(net_forces_w_history'[i])]_vars

\* C5: onset snapshot. A body with air time a > 0 whose net force norm exceeds 1.0
\* in a step has last_air_time = a + elapsed and current_air_time = 0 after it.
C5_OnsetSnapshot ==
    [][\A i \in Envs : \A b \in Bodies :
          (Stepped(i) /\ current_air_time[i][b] > 0 /\ Norm2(net_forces_w'[i][b]) > 1) =>
              /\ last_air_time'[i][b] = current_air_time[i][b] + ElapsedTime(i)
              /\ current_air_time'[i][b] = 0]_vars

\* C6: contact zeroing. After a step over an env, every body of it whose own net
\* force norm exceeds 1.0 has current_air_time = 0.
C6_ContactZeroing ==
    last.op = "data" =>
        \A i \in last.arg.ids : \A b \in Bodies :
            Norm2(net_forces_w[i][b]) > 1 => current_air_time[i][b] = 0

\* C7: air-time accrual. A step in which a body's own net force norm is at most
\* 1.0 adds the elapsed time of the step to its current_air_time (so n such steps
\* from zero sum their elapsed times).
C7_AirTimeAccrual ==
    [][\A i \in Envs : \A b \in Bodies :
          (Stepped(i) /\ Norm2(net_forces_w'[i][b]) <= 1) =>
              current_air_time'[i][b] = current_air_time[i][b] + ElapsedTime(i)]_vars

\* The transition leaves the state that reset(env_ids) leaves.
ResetsLike(env_ids) ==
    /\ current_air_time' = ResetData(env_ids).current_air_time
    /\ last_air_time' = ResetData(env_ids).last_air_time
    /\ net_forces_w' = ResetData(env_ids).net_forces_w
    /\ net_forces_w_history' = ResetData(env_ids).net_forces_w_history
    /\ timestamp' = ResetBase(env_ids).timestamp
    /\ timestamp_last_update' = ResetBase(env_ids).timestamp_last_update
    /\ is_outdated' = ResetBase(env_ids).is_outdated
    /\ UNCHANGED <<pos_w, quat_w, force_matrix_w>>

\* C8 as stated: reset(None) and reset of the empty subset both leave the state
\* that reset of the explicit list of all envs leaves.
C8_DefaultExpansion ==
    [][(last'.op = "reset" /\ (last'.arg = None \/ last'.arg = Ids({}))) =>
          ResetsLike(Ids(Envs))]_vars

\* C8 amended: reset(None) leaves the state that reset of the explicit list of all
\* envs leaves; reset of the empty subset resets no env: the air times, net forces
\* and history of every env keep their values.
C8_DefaultExpansionNone ==
    [][/\ (last'.op = "reset" /\ last'.arg = None) => ResetsLike(Ids(Envs))
       /\ (last'.op = "reset" /\ last'.arg = Ids({})) =>
              UNCHANGED <<current_air_time, last_air_time, net_forces_w,
                          net_forces_w_history>>]_vars

\* C8 witness: the empty subset was just reset and an env still holds a nonzero
\* net force.
C8_Witness ==
    /\ last.op = "reset"
    /\ last.arg = Ids({})
    /\ \E i \in Envs : net_forces_w[i][0] # Zero3 /\ net_forces_w_history[i][1][0] # Zero3

\* C9: no operation raises: every update runs all of its statements.
C9_NeverFails == ~last.raised

\* C10: per-env contact detection. In a step that ran to its end, the contact flag
\* used for body b of env i is true iff the norm of that body's net force exceeds 1.0.
C10_OwnContact ==
    (last.op = "data" /\ ~last.raised) =>
        \A i \in last.arg.ids : \A b \in Bodies :
            last.is_contact[i][b] <=> (Norm2(net_forces_w[i][b]) > 1)

\* C11 as stated: last_air_time changes only at onset. Across a step in which
\* is_first_contact is false for a body, and across a read that does not step its
\* env, the body's last_air_time keeps its value.
C11_OnlyOnsetChanges ==
    [][\A i \in Envs : \A b \in Bodies :
          (last'.op = "data" /\ ~last'.first[i][b]) =>
              last_air_time'[i][b] = last_air_time[i][b]]_vars

\* C11 amended: a step over an env that runs to its end with is_first_contact false
\* for a body sets that body's last_air_time to 0 (it keeps its value only if that
\* was 0); a read that does not step the env, or whose step raises before the air
\* times are updated, keeps it.
C11_NonOnsetStepZeroes ==
    [][\A i \in Envs : \A b \in Bodies :
          /\ (Stepped(i) /\ ~last'.raised /\ ~last'.first[i][b]) =>
                 last_air_time'[i][b] = 0
          /\ (last'.op = "data" /\ (i \notin last'.arg.ids \/ last'.raised)) =>
                 last_air_time'[i][b] = last_air_time[i][b]]_vars

\* C11 witness: a step ran to its end over an env with a body that had a nonzero
\* last_air_time and was not at onset; its last_air_time is now 0.
C11_Witness ==
    /\ last.op = "data"
    /\ ~last.raised
    /\ \E i \in last.arg.ids : \E b \in Bodies :
           last.had_last[i][b] /\ ~last.first[i][b] /\ last_air_time[i][b] = 0

\* C12: overwrite semantics. After every step over an env, every body of it for
\* which is_first_contact is false in that step has last_air_time = 0, whatever
\* it was before.
C12_OverwriteSemantics ==
    last.op = "data" =>
        \A i \in last.arg.ids : \A b \in Bodies :
            ~last.first[i][b] => last_air_time[i][b] = 0

\* C13: reset(S) leaves the outdated flag false for the envs in S and unchanged
\* for the others, and an env that is not stale stays so until a simulation step
\* advances its clock: no read and no reset of other envs makes it stale.
C13_ResetNotStale ==
    [][\A i \in Envs :
          /\ (last'.op = "reset" /\ i \in Subset(last'.arg)) =>
                 /\ ~is_outdated'[i]
                 /\ ~(timestamp'[i] > timestamp_last_update'[i])
          /\ (last'.op = "reset" /\ i \notin Subset(last'.arg)) =>
                 is_outdated'[i] = is_outdated[i]
          /\ (~NeedsUpdate(i) /\ last'.op # "step") =>
                 ~(timestamp'[i] > timestamp_last_update'[i] \/ is_outdated'[i])]_vars

\* C13 witness: env 0 alone was just reset after the simulation had advanced; its
\* flag is clear and it is not stale, while env 1's flag is still set.
C13_Witness ==
    /\ last.op = "reset"
    /\ last.arg = Ids({0})
    /\ ~NeedsUpdate(0)
    /\ is_outdated[1]
    /\ timestamp[1] > 0

\* C14: reset(S) leaves the positions, the orientations and the force matrix of
\* every env unchanged, the envs of S included.
C14_ResetKeepsPose ==
    [][last'.op = "reset" => UNCHANGED <<pos_w, quat_w, force_matrix_w>>]_vars

\* C14 witness: an env whose pose and force matrix had been written by an update
\* was just reset, and still holds them.
C14_Witness ==
    /\ last.op = "reset"
    /\ has_filter
    /\ \E i \in Subset(last.arg) :
           /\ net_forces_w_history[i][1][0] = Zero3
           /\ pos_w[i][0] # 0
           /\ quat_w[i][0] # 0
           /\ force_matrix_w[i][0] # 0

\* C15: a step over the envs S leaves the position, orientation, net force,
\* history, force matrix and both air times of every env not in S unchanged; with
\* num_envs ids, passed as a list, S is every env.
C15_StepFrame ==
    [][\A i \in Envs :
          (last'.op = "data" /\ i \notin last'.arg.ids) =>
              /\ pos_w'[i] = pos_w[i]
              /\ quat_w'[i] = quat_w[i]
              /\ net_forces_w'[i] = net_forces_w[i]
              /\ net_forces_w_history'[i] = net_forces_w_history[i]
              /\ force_matrix_w'[i] = force_matrix_w[i]
              /\ current_air_time'[i] = current_air_time[i]
              /\ last_air_time'[i] = last_air_time[i]]_vars

\* C15 witness: a step over env 1 alone just wrote env 1's buffers, and env 0
\* holds other values than env 1 in its pose, net force and force matrix.
C15_Witness ==
    /\ last.op = "data"
    /\ last.arg = Ids({1})
    /\ has_filter
    /\ pos_w[1][0] # 0 /\ pos_w[0][0] = 0
    /\ force_matrix_w[1][0] # 0 /\ force_matrix_w[0][0] = 0
    /\ net_forces_w[1][0] # net_forces_w[0][0]
    /\ net_forces_w_history[1] # net_forces_w_history[0]

\* C16: sustained contact is not an onset. A body with current_air_time = 0 before
\* a step in which its own net force norm exceeds 1.0 has is_first_contact false,
\* and current_air_time = 0 and last_air_time = 0 after the step.
C16_SustainedContact ==
    [][\A i \in Envs : \A b \in Bodies :
          (Stepped(i) /\ current_air_time[i][b] = 0 /\ Norm2(net_forces_w'[i][b]) > 1) =>
              /\ ~last'.first[i][b]
              /\ current_air_time'[i][b] = 0
              /\ last_air_time'[i][b] = 0]_vars

\* C17: in every reachable state, slot 0 of the force history of every env equals
\* that env's net forces.
C17_SlotZeroIsNetForce ==
    \A i \in Envs : net_forces_w_history[i][1] = net_forces_w[i]

\* C17 witness: a step over env 1 alone (which then raised) just wrote a contact
\* force, while env 0 holds the zeros of its reset.
C17_Witness ==
    /\ last.op = "data"
    /\ last.arg = Ids({1})
    /\ net_forces_w[1][0] = ContactForce
    /\ net_forces_w[0][0] = Zero3

\* C18: with history length 0 the history of every env has exactly one slot; after
\* a step it holds the net forces of that step, and nothing older is kept.
C18_NoHistory ==
    history_length = 0 =>
        \A i \in Envs :
            /\ Len(net_forces_w_history[i]) = 1
            /\ Len(fed[i]) >= 1 =>
                   /\ net_forces_w_history[i][1] = fed[i][1]
                   /\ net_forces_w[i] = fed[i][1]

\* C18 witness: with history length 0, env 0 was just stepped at an onset, so an
\* earlier step had fed it a force below the threshold; its one slot holds the
\* contact force of this step.
C18_Witness ==
    /\ history_length = 0
    /\ last.op = "data"
    /\ 0 \in last.arg.ids
    /\ last.first[0][0]
    /\ net_forces_w_history[0] = <<[b \in Bodies |-> ContactForce]>>

\* C19: current_air_time is never negative, for any env and body, in any
\* reachable state.
C19_AirTimeNonNegative ==
    \A i \in Envs : \A b \in Bodies : current_air_time[i][b] >= 0

\* C19 witness: a completed step added a positive elapsed time to a body that the
\* step did not flag as in contact.
C19_Witness ==
    /\ last.op = "data"
    /\ ~last.raised
    /\ \E i \in last.arg.ids : \E b \in Bodies :
           ~last.is_contact[i][b] /\ current_air_time[i][b] > 0

\* C20: no body of any env has both current_air_time and last_air_time positive.
C20_AirTimesExclusive ==
    \A i \in Envs : \A b \in Bodies :
        ~(current_air_time[i][b] > 0 /\ last_air_time[i][b] > 0)

\* C20 witness: a completed step at an onset left last_air_time positive and
\* current_air_time zero for the same body.
C20_Witness ==
    /\ last.op = "data"
    /\ ~last.raised
    /\ \E i \in last.arg.ids : \E b \in Bodies :
           last.first[i][b] /\ last_air_time[i][b] > 0 /\ current_air_time[i][b] = 0

====
